---- MODULE Spec2Model ----
(***************************************************************************)
(* Model of the resilient fetch gateway of content-scraper:                *)
(*   utils/rate_limiter.py    RateLimiter (sliding window, threading.Lock) *)
(*   scrapers/base_scraper.py BaseScraper (robots cache, fetch_url, stats) *)
(*   validators/authenticity_validator.py (trust scoring of content dicts) *)
(*                                                                         *)
(* Time.  time.time() is a clock of whole seconds that only moves forward  *)
(* (action Tick).  A stored timestamp ts is represented by its age         *)
(* time.time() - ts, which Tick increases; an age is saturated at `period` *)
(* because every test the code makes on a timestamp is                     *)
(* `ts <= now - period`, i.e. `age >= period`.  A thread inside            *)
(* time.sleep(d) carries the seconds it still has to sleep.  `now` is read *)
(* and used within one step, so it is always age 0.                        *)
(*                                                                         *)
(* Every thread of control is a process with a program counter; a blocking *)
(* call (lock acquisition, time.sleep) is a program-counter value whose    *)
(* exit is guarded.                                                        *)
(*                                                                         *)
(* Validator.                                                              *)
(* A Python dict is a function whose domain is the set of keys present; a  *)
(* str that the code parses or edits (a host name) is a sequence of        *)
(* characters, so that str.replace and str.endswith act on characters.     *)
(***************************************************************************)
EXTENDS Integers, Sequences, FiniteSets, TLC

(* ---------------------------- bounds ---------------------------------- *)
NumThreads == 2
MaxCalls == 5
MaxFetches == 3
calls == 2
period == 3
MaxLabels == 3
MaxValidations == 2
MaxBatch == 3
initial_calls == 4

Threads == 1..NumThreads
NoThread == 0

VARIABLES
    timestamps,  \* RateLimiter.timestamps (deque, oldest first), as ages
    lock,        \* RateLimiter.lock: the thread holding it, or NoThread
    pc,          \* pc[t]: position of thread t
    sleepLeft,   \* sleepLeft[t]: seconds until the time.sleep of t returns
    caller,      \* caller[t]: who invoked wait_if_needed ("direct"/"fetch_url")
    window,      \* history: ages of all recorded acquisitions younger than period
    appends,     \* history: number of timestamps ever appended
    rlReturns,   \* history: number of wait_if_needed calls that have returned
    started,     \* history: number of operations started (bounds the run)
    robot_parsers, \* BaseScraper.robot_parsers: host -> cached parser
    stats,       \* BaseScraper.stats (the three request counters)
    url,         \* url[t]: argument of the fetch_url call of thread t
    attempt,     \* attempt[t]: tenacity's attempt_number of that call
    total,       \* total[t]: urllib3 Retry.total left inside session.request
    reg,         \* reg[t]: value read by the load half of a `+= 1`
    exc,         \* exc[t]: exception raised by the current attempt
    result,      \* result[t]: how the last fetch_url call of t ended
    reqs,        \* history: HTTP requests sent to the target by this call
    waits,       \* history: tenacity backoff waits of this call, in order
    acqs,        \* history: timestamps appended by the current call of t
    httpSent,    \* history: HTTP requests sent to target hosts, all calls
    blocked,     \* history: number of policy-blocked fetch_url calls
    attemptsMade, \* history: attempts that entered the try block since reset
    robotsReads, \* history: robots.txt downloads per host
    cancelled,   \* the external cancellation signal has been raised
    authors_config,   \* AuthenticityValidator.authors_config (author -> profile)
    official_domains, \* AuthenticityValidator.official_domains (author -> list)
    contents,    \* the content dicts handed to the validator (mutated in place)
    orig,        \* history: the content dicts as they were handed over
    vlog,        \* history: vlog[i] = outcomes of the validate calls on contents[i]
    bpc,         \* position of the validate_batch call
    bidx,        \* validate_batch: index of the content the loop is at
    validated,   \* validate_batch: the output list (references into contents)
    fmin,        \* filter_by_score: the min_score argument of the call
    filtered,    \* filter_by_score: the returned list (references into contents)
    acalls,      \* AdaptiveRateLimiter.calls (the current limit)
    consecutive_rate_limits  \* AdaptiveRateLimiter.consecutive_rate_limits

rlVars == <<timestamps, lock, window, appends, rlReturns>>
thVars == <<pc, sleepLeft, caller>>
callVars == <<url, attempt, total, reg, exc, result, reqs, waits>>
histVars == <<httpSent, blocked, attemptsMade, robotsReads>>
fVars == <<robot_parsers, stats, callVars, histVars, cancelled>>
valVars == <<authors_config, official_domains, contents, orig, vlog, bpc,
             bidx, validated, fmin, filtered>>
adVars == <<acalls, consecutive_rate_limits>>
vars == <<timestamps, lock, pc, sleepLeft, caller, window, appends,
          rlReturns, started, robot_parsers, stats, url, attempt, total,
          reg, exc, result, reqs, waits, acqs, httpSent, blocked,
          attemptsMade, robotsReads, cancelled, valVars, adVars>>

(* ---------------------------- helpers --------------------------------- *)
Max(a, b) == IF a >= b THEN a ELSE b
Min(a, b) == IF a <= b THEN a ELSE b

RECURSIVE Pow2(_)
Pow2(n) == IF n <= 0 THEN 1 ELSE 2 * Pow2(n - 1)

\* while self.timestamps and self.timestamps[0] <= now - self.period: popleft()
RECURSIVE Evict(_)
Evict(ts) ==
    IF ts # <<>> /\ Head(ts) >= period THEN Evict(Tail(ts)) ELSE ts

\* one second later every stored timestamp is one second older
Older(ts) == [i \in DOMAIN ts |-> Min(ts[i] + 1, period)]

Recent(a) == a < period

(* --------------------------- environment ------------------------------ *)
\* the clock advances by one second
Tick ==
    /\ timestamps' = Older(timestamps)
    /\ window' = SelectSeq(Older(window), Recent)
    /\ sleepLeft' = [t \in Threads |-> Max(0, sleepLeft[t] - 1)]
    /\ UNCHANGED <<lock, appends, rlReturns, pc, caller, started, acqs, fVars>>
    /\ UNCHANGED <<valVars, adVars>>

(* ------------------- RateLimiter.wait_if_needed ----------------------- *)
\* a thread calls limiter.wait_if_needed() directly
CallWait(t) ==
    /\ pc[t] = "idle"
    /\ started < MaxCalls
    /\ started' = started + 1
    /\ acqs' = [acqs EXCEPT ![t] = 0]
    /\ pc' = [pc EXCEPT ![t] = "rl_lock"]
    /\ caller' = [caller EXCEPT ![t] = "direct"]
    /\ UNCHANGED <<rlVars, sleepLeft, fVars>>
    /\ UNCHANGED <<valVars, adVars>>

\* RLAcquire without mutual exclusion (the `with self.lock` left out)
RLAcquire_NoLock(t) ==
    /\ pc[t] = "rl_lock"
    /\ lock' = t
    /\ pc' = [pc EXCEPT ![t] = "rl_check"]
    /\ UNCHANGED <<timestamps, window, appends, rlReturns, sleepLeft, caller,
                   started, acqs, fVars>>
    /\ UNCHANGED <<valVars, adVars>>

\* with self.lock:
RLAcquire(t) ==
    /\ pc[t] = "rl_lock"
    /\ lock = NoThread
    /\ lock' = t
    /\ pc' = [pc EXCEPT ![t] = "rl_check"]
    /\ UNCHANGED <<timestamps, window, appends, rlReturns, sleepLeft, caller,
                   started, acqs, fVars>>
    /\ UNCHANGED <<valVars, adVars>>

\* RLCheck with the limit test off by one (`>` for `>=`)
RLCheck_OffByOne(t) ==
    /\ pc[t] = "rl_check"
    /\ LET ts == Evict(timestamps)
       IN IF Len(ts) > calls /\ period - Head(ts) > 0
          THEN /\ timestamps' = ts
               /\ sleepLeft' = [sleepLeft EXCEPT ![t] = period - Head(ts)]
               /\ pc' = [pc EXCEPT ![t] = "rl_sleep"]
               /\ UNCHANGED <<window, appends, acqs>>
          ELSE /\ timestamps' = Append(ts, 0)
               /\ window' = Append(window, 0)
               /\ appends' = appends + 1
               /\ acqs' = [acqs EXCEPT ![t] = @ + 1]
               /\ pc' = [pc EXCEPT ![t] = "rl_release"]
               /\ UNCHANGED sleepLeft
    /\ UNCHANGED <<lock, rlReturns, caller, started, fVars>>
    /\ UNCHANGED <<valVars, adVars>>

\* now = time.time(); eviction loop; the limit test.  Either
\* time.sleep(sleep_time) starts (the lock stays held), or
\* self.timestamps.append(now) runs at once.
RLCheck(t) ==
    /\ pc[t] = "rl_check"
    /\ LET ts == Evict(timestamps)
       IN IF Len(ts) >= calls /\ period - Head(ts) > 0
          THEN /\ timestamps' = ts
               /\ sleepLeft' = [sleepLeft EXCEPT ![t] = period - Head(ts)]
               /\ pc' = [pc EXCEPT ![t] = "rl_sleep"]
               /\ UNCHANGED <<window, appends, acqs>>
          ELSE /\ timestamps' = Append(ts, 0)
               /\ window' = Append(window, 0)
               /\ appends' = appends + 1
               /\ acqs' = [acqs EXCEPT ![t] = @ + 1]
               /\ pc' = [pc EXCEPT ![t] = "rl_release"]
               /\ UNCHANGED sleepLeft
    /\ UNCHANGED <<lock, rlReturns, caller, started, fVars>>
    /\ UNCHANGED <<valVars, adVars>>

\* time.sleep returns; now = time.time(); second eviction loop;
\* self.timestamps.append(now)
RLWake(t) ==
    /\ pc[t] = "rl_sleep"
    /\ sleepLeft[t] = 0
    /\ timestamps' = Append(Evict(timestamps), 0)
    /\ window' = Append(window, 0)
    /\ appends' = appends + 1
    /\ acqs' = [acqs EXCEPT ![t] = @ + 1]
    /\ pc' = [pc EXCEPT ![t] = "rl_release"]
    /\ UNCHANGED <<lock, rlReturns, sleepLeft, caller, started, fVars>>
    /\ UNCHANGED <<valVars, adVars>>

\* RLRelease that returns without giving the lock back
RLRelease_KeepLock(t) ==
    /\ pc[t] = "rl_release"
    /\ lock = t
    /\ rlReturns' = rlReturns + 1
    /\ pc' = [pc EXCEPT ![t] = IF caller[t] = "fetch_url"
                               THEN "f_total_load" ELSE "idle"]
    /\ caller' = [caller EXCEPT ![t] = "none"]
    /\ UNCHANGED <<timestamps, window, appends, sleepLeft, started, acqs, fVars>>
    /\ UNCHANGED <<lock, valVars, adVars>>

\* end of the with block: the lock is released and the call returns to
\* its caller (fetch_url continues at `self.stats['total_requests'] += 1`)
RLRelease(t) ==
    /\ pc[t] = "rl_release"
    /\ lock = t
    /\ lock' = NoThread
    /\ rlReturns' = rlReturns + 1
    /\ pc' = [pc EXCEPT ![t] = IF caller[t] = "fetch_url"
                               THEN "f_total_load" ELSE "idle"]
    /\ caller' = [caller EXCEPT ![t] = "none"]
    /\ UNCHANGED <<timestamps, window, appends, sleepLeft, started, acqs, fVars>>
    /\ UNCHANGED <<valVars, adVars>>

(* ------------------------ AdaptiveRateLimiter ------------------------- *)
\* In the runs of the adaptive limiter the variables timestamps, lock,
\* window and the threads' positions are those of one AdaptiveRateLimiter
\* built with AdaptiveRateLimiter(initial_calls, period).
min_calls == 1

\* int(x * 1.5) for an int x >= 0
IntOneAndAHalf(x) == (3 * x) \div 2

\* a thread calls adaptive.wait_if_needed()
ACallWait(t) ==
    /\ pc[t] = "idle"
    /\ started < MaxCalls
    /\ started' = started + 1
    /\ acqs' = [acqs EXCEPT ![t] = 0]
    /\ pc' = [pc EXCEPT ![t] = "a_lock"]
    /\ caller' = [caller EXCEPT ![t] = "direct"]
    /\ UNCHANGED <<rlVars, sleepLeft, fVars, valVars, adVars>>

\* with self.lock:
AAcquire(t) ==
    /\ pc[t] = "a_lock"
    /\ lock = NoThread
    /\ lock' = t
    /\ pc' = [pc EXCEPT ![t] = "a_check"]
    /\ UNCHANGED <<timestamps, window, appends, rlReturns, sleepLeft, caller,
                   started, acqs, fVars, valVars, adVars>>

\* now = time.time(); eviction loop; `len(self.timestamps) >= self.calls`
\* against the current limit; time.sleep starts or the timestamp is appended
ACheck(t) ==
    /\ pc[t] = "a_check"
    /\ LET ts == Evict(timestamps)
       IN IF Len(ts) >= acalls /\ period - Head(ts) > 0
          THEN /\ timestamps' = ts
               /\ sleepLeft' = [sleepLeft EXCEPT ![t] = period - Head(ts)]
               /\ pc' = [pc EXCEPT ![t] = "a_sleep"]
               /\ UNCHANGED <<window, appends, acqs>>
          ELSE /\ timestamps' = Append(ts, 0)
               /\ window' = Append(window, 0)
               /\ appends' = appends + 1
               /\ acqs' = [acqs EXCEPT ![t] = @ + 1]
               /\ pc' = [pc EXCEPT ![t] = "a_release"]
               /\ UNCHANGED sleepLeft
    /\ UNCHANGED <<lock, rlReturns, caller, started, fVars, valVars, adVars>>

\* time.sleep returns; second eviction loop; self.timestamps.append(now)
AWake(t) ==
    /\ pc[t] = "a_sleep"
    /\ sleepLeft[t] = 0
    /\ timestamps' = Append(Evict(timestamps), 0)
    /\ window' = Append(window, 0)
    /\ appends' = appends + 1
    /\ acqs' = [acqs EXCEPT ![t] = @ + 1]
    /\ pc' = [pc EXCEPT ![t] = "a_release"]
    /\ UNCHANGED <<lock, rlReturns, sleepLeft, caller, started, fVars,
                   valVars, adVars>>

\* end of the with block: wait_if_needed returns
ARelease(t) ==
    /\ pc[t] = "a_release"
    /\ lock = t
    /\ lock' = NoThread
    /\ rlReturns' = rlReturns + 1
    /\ pc' = [pc EXCEPT ![t] = "idle"]
    /\ caller' = [caller EXCEPT ![t] = "none"]
    /\ UNCHANGED <<timestamps, window, appends, sleepLeft, started, acqs,
                   fVars, valVars, adVars>>

\* adaptive.throttle_down(): the body runs under the lock and does not block
throttle_down(t) ==
    /\ pc[t] = "idle"
    /\ lock = NoThread
    /\ started < MaxCalls
    /\ started' = started + 1
    /\ consecutive_rate_limits' = consecutive_rate_limits + 1
    /\ acalls' = IF acalls > min_calls
                 THEN Max(min_calls, acalls \div 2)
                 ELSE acalls
    /\ UNCHANGED <<rlVars, thVars, acqs, fVars, valVars>>

\* adaptive.throttle_up(): the body runs under the lock and does not block
throttle_up(t) ==
    /\ pc[t] = "idle"
    /\ lock = NoThread
    /\ started < MaxCalls
    /\ started' = started + 1
    /\ IF consecutive_rate_limits > 0
       THEN /\ consecutive_rate_limits' = consecutive_rate_limits - 1
            /\ UNCHANGED acalls
       ELSE IF acalls < initial_calls
       THEN /\ acalls' = Min(initial_calls, IntOneAndAHalf(acalls))
            /\ UNCHANGED consecutive_rate_limits
       ELSE UNCHANGED <<acalls, consecutive_rate_limits>>
    /\ UNCHANGED <<rlVars, thVars, acqs, fVars, valVars>>

(* ------------------------ program constants --------------------------- *)
MAX_RETRIES == 3
WAIT_MULTIPLIER == 1
WAIT_MIN == 4
WAIT_MAX == 10
BACKOFF_FACTOR == 1
status_forcelist == {429, 500, 502, 503, 504}

(* ----------------------- remote hosts (inputs) ------------------------ *)
\* What each host answers to GET <host>/robots.txt.
Hosts == {"good", "r403", "r404", "r503", "rdown", "rbad"}

RobotsAnswer(h) ==
    CASE h = "good" -> "rules"         \* 200, "User-agent: * / Disallow: /private"
      [] h = "r403" -> "http403"
      [] h = "r404" -> "http404"
      [] h = "r503" -> "http503"
      [] h = "rdown" -> "neterr"       \* URLError / socket timeout
      [] h = "rbad" -> "undecodable"   \* body is not UTF-8

Disallowed == {"/private"}
Paths == {"/ok", "/private", "/missing", "/unavail", "/flaky", "/down"}

URLs == {[host |-> "good", path |-> p] : p \in Paths}
          \cup {[host |-> h, path |-> "/ok"] : h \in Hosts \ {"good"}}
\* the URLs fetched by the worker threads of the concurrent runs
ConcURLs == {[host |-> "good", path |-> p] :
                 p \in {"/ok", "/private", "/flaky", "/missing"}}
NoURL == [host |-> "good", path |-> "/ok"]

\* Status of the n-th HTTP request that one fetch_url call sends to url u;
\* 0 stands for a transport-level error (reset, DNS failure, timeout).
Response(u, n) ==
    CASE u.path = "/missing" -> 404
      [] u.path = "/unavail" -> 503
      [] u.path = "/flaky" -> IF n <= 2 THEN 503 ELSE 200
      [] u.path = "/down" -> 0
      [] OTHER -> 200

(* ------------------------ exception classes --------------------------- *)
RequestExceptions == {"HTTPError", "RetryError", "ConnectionError"}
\* retry_if_exception_type((requests.RequestException, ConnectionError))
RetryTypes == RequestExceptions \cup {"builtins.ConnectionError"}

(* --------------------- crawl policy (robots.txt) ---------------------- *)
\* RobotFileParser.read() inside the try block of _get_robot_parser: the
\* value stored in robot_parsers.  read() itself swallows HTTPError (401/403
\* set disallow_all, other 4xx set allow_all, 5xx leave the parser unread);
\* any other exception reaches the except clause, which stores None.
ReadRobots(h) ==
    CASE RobotsAnswer(h) = "rules" -> "rp_rules"
      [] RobotsAnswer(h) = "http403" -> "rp_disallow_all"
      [] RobotsAnswer(h) = "http404" -> "rp_allow_all"
      [] RobotsAnswer(h) = "http503" -> "rp_unread"
      [] OTHER -> "None"

\* RobotFileParser.can_fetch(user_agent, url)
RpCanFetch(rp, path) ==
    CASE rp = "rp_disallow_all" -> FALSE
      [] rp = "rp_allow_all" -> TRUE
      [] rp = "rp_unread" -> FALSE      \* last_checked is still 0
      [] OTHER -> path \notin Disallowed

\* BaseScraper.can_fetch once the host's entry is in the cache
can_fetch(u) ==
    IF robot_parsers[u.host] = "None" THEN TRUE
    ELSE RpCanFetch(robot_parsers[u.host], u.path)

(* ------------------------- retry arithmetic --------------------------- *)
\* tenacity wait_exponential(multiplier=1, min=4, max=10) after attempt n
WaitExponential(n) ==
    Max(Max(0, WAIT_MIN), Min(WAIT_MULTIPLIER * Pow2(n - 1), WAIT_MAX))

\* urllib3 Retry.get_backoff_time after n consecutive errors
GetBackoffTime(n) == IF n <= 1 THEN 0 ELSE BACKOFF_FACTOR * Pow2(n - 1)

(* ------------------------ BaseScraper.fetch_url ----------------------- *)
\* a caller invokes fetch_url(u); tenacity starts attempt 1
StartFetch(t, u) ==
    /\ pc[t] = "idle"
    /\ started < MaxFetches
    /\ started' = started + 1
    /\ url' = [url EXCEPT ![t] = u]
    /\ attempt' = [attempt EXCEPT ![t] = 1]
    /\ reqs' = [reqs EXCEPT ![t] = 0]
    /\ waits' = [waits EXCEPT ![t] = <<>>]
    /\ acqs' = [acqs EXCEPT ![t] = 0]
    /\ result' = [result EXCEPT ![t] = "none"]
    /\ pc' = [pc EXCEPT ![t] = "f_can_fetch"]
    /\ UNCHANGED <<rlVars, sleepLeft, caller, robot_parsers, stats,
                   total, reg, exc, histVars, cancelled>>
    /\ UNCHANGED <<valVars, adVars>>

\* FCanFetch with the rate limiter consulted before the robots.txt check:
\* a blocked call has already taken its slot
FCanFetch_LimiterFirst(t) ==
    /\ pc[t] = "f_can_fetch"
    /\ robot_parsers[url[t].host] # "absent"
    /\ IF ~can_fetch(url[t])
       THEN /\ result' = [result EXCEPT ![t] = "ValueError"]
            /\ blocked' = blocked + 1
            /\ timestamps' = Append(Evict(timestamps), 0)
            /\ window' = Append(window, 0)
            /\ appends' = appends + 1
            /\ acqs' = [acqs EXCEPT ![t] = @ + 1]
            /\ pc' = [pc EXCEPT ![t] = "idle"]
            /\ UNCHANGED caller
       ELSE /\ pc' = [pc EXCEPT ![t] = "rl_lock"]
            /\ caller' = [caller EXCEPT ![t] = "fetch_url"]
            /\ UNCHANGED <<result, blocked, timestamps, window, appends, acqs>>
    /\ UNCHANGED <<lock, rlReturns, sleepLeft, started, robot_parsers, stats,
                   url, attempt, total, reg, exc, reqs, waits, httpSent,
                   attemptsMade, robotsReads, cancelled>>
    /\ UNCHANGED <<valVars, adVars>>

\* can_fetch(url), host already cached: blocked -> ValueError, which the
\* retry predicate does not match, so it leaves fetch_url at once;
\* allowed -> self.rate_limiter.wait_if_needed()
FCanFetch(t) ==
    /\ pc[t] = "f_can_fetch"
    /\ robot_parsers[url[t].host] # "absent"
    /\ IF ~can_fetch(url[t])
       THEN /\ result' = [result EXCEPT ![t] = "ValueError"]
            /\ blocked' = blocked + 1
            /\ pc' = [pc EXCEPT ![t] = "idle"]
            /\ UNCHANGED caller
       ELSE /\ pc' = [pc EXCEPT ![t] = "rl_lock"]
            /\ caller' = [caller EXCEPT ![t] = "fetch_url"]
            /\ UNCHANGED <<result, blocked>>
    /\ UNCHANGED <<rlVars, sleepLeft, started, robot_parsers, stats,
                   url, attempt, total, reg, exc, reqs, waits, acqs, httpSent,
                   attemptsMade, robotsReads, cancelled>>
    /\ UNCHANGED <<valVars, adVars>>

\* FRobotsRead that does not cache a failed download
FRobotsRead_NoneNotCached(t) ==
    /\ pc[t] = "f_can_fetch"
    /\ robot_parsers[url[t].host] = "absent"
    /\ robot_parsers' = IF ReadRobots(url[t].host) = "None"
                        THEN robot_parsers
                        ELSE [robot_parsers EXCEPT ![url[t].host] =
                                  ReadRobots(url[t].host)]
    /\ robotsReads' = [robotsReads EXCEPT ![url[t].host] = @ + 1]
    /\ UNCHANGED <<rlVars, thVars, started, stats, callVars, acqs,
                   httpSent, blocked, attemptsMade, cancelled>>
    /\ UNCHANGED <<valVars, adVars>>

\* _get_robot_parser, host not cached: download and parse robots.txt,
\* store the parser (or None) in the cache
FRobotsRead(t) ==
    /\ pc[t] = "f_can_fetch"
    /\ robot_parsers[url[t].host] = "absent"
    /\ robot_parsers' = [robot_parsers EXCEPT ![url[t].host] = ReadRobots(url[t].host)]
    /\ robotsReads' = [robotsReads EXCEPT ![url[t].host] = @ + 1]
    /\ UNCHANGED <<rlVars, thVars, started, stats, callVars, acqs,
                   httpSent, blocked, attemptsMade, cancelled>>
    /\ UNCHANGED <<valVars, adVars>>

\* self.stats['total_requests'] += 1   (load)
FTotalLoad(t) ==
    /\ pc[t] = "f_total_load"
    /\ reg' = [reg EXCEPT ![t] = stats.total_requests]
    /\ pc' = [pc EXCEPT ![t] = "f_total_store"]
    /\ UNCHANGED <<rlVars, sleepLeft, caller, started, robot_parsers,
                   stats, url, attempt, total, exc, result, reqs, waits, acqs,
                   histVars, cancelled>>
    /\ UNCHANGED <<valVars, adVars>>

\* self.stats['total_requests'] += 1   (store); session.request starts with
\* the adapter's Retry(total=MAX_RETRIES)
FTotalStore(t) ==
    /\ pc[t] = "f_total_store"
    /\ stats' = [stats EXCEPT !.total_requests = reg[t] + 1]
    /\ reg' = [reg EXCEPT ![t] = 0]
    /\ attemptsMade' = attemptsMade + 1
    /\ total' = [total EXCEPT ![t] = MAX_RETRIES]
    /\ pc' = [pc EXCEPT ![t] = "f_request"]
    /\ UNCHANGED <<rlVars, sleepLeft, caller, started, robot_parsers,
                   url, attempt, exc, result, reqs, waits, acqs, httpSent,
                   blocked, robotsReads, cancelled>>
    /\ UNCHANGED <<valVars, adVars>>

\* One HTTP request inside self.session.request, and response.raise_for_status():
\*   2xx                      -> the success branch;
\*   transport error, or a status of status_forcelist -> Retry.increment():
\*       exhausted -> requests raises ConnectionError / RetryError,
\*       else Retry.sleep() and the request is sent again;
\*   any other status         -> raise_for_status raises HTTPError.
FRequest(t) ==
    /\ pc[t] = "f_request"
    /\ reqs' = [reqs EXCEPT ![t] = @ + 1]
    /\ httpSent' = httpSent + 1
    /\ LET st == Response(url[t], reqs[t] + 1)
       IN IF st \in 200..299
          THEN /\ pc' = [pc EXCEPT ![t] = "f_succ_load"]
               /\ total' = [total EXCEPT ![t] = 0]
               /\ UNCHANGED <<exc, sleepLeft>>
          ELSE IF st = 0 \/ st \in status_forcelist
          THEN IF total[t] - 1 < 0
               THEN /\ exc' = [exc EXCEPT ![t] = IF st = 0 THEN "ConnectionError"
                                                 ELSE "RetryError"]
                    /\ total' = [total EXCEPT ![t] = 0]
                    /\ pc' = [pc EXCEPT ![t] = "f_fail_load"]
                    /\ UNCHANGED sleepLeft
               ELSE /\ total' = [total EXCEPT ![t] = @ - 1]
                    /\ sleepLeft' = [sleepLeft EXCEPT ![t] =
                                GetBackoffTime(MAX_RETRIES - (total[t] - 1))]
                    /\ pc' = [pc EXCEPT ![t] = "f_retry_sleep"]
                    /\ UNCHANGED exc
          ELSE /\ exc' = [exc EXCEPT ![t] = "HTTPError"]
               /\ total' = [total EXCEPT ![t] = 0]
               /\ pc' = [pc EXCEPT ![t] = "f_fail_load"]
               /\ UNCHANGED sleepLeft
    /\ UNCHANGED <<rlVars, caller, started, robot_parsers, stats,
                   url, attempt, reg, result, waits, acqs, blocked,
                   attemptsMade, robotsReads, cancelled>>
    /\ UNCHANGED <<valVars, adVars>>

\* Retry.sleep() inside session.request is over: send the request again
FRetryWake(t) ==
    /\ pc[t] = "f_retry_sleep"
    /\ sleepLeft[t] = 0
    /\ pc' = [pc EXCEPT ![t] = "f_request"]
    /\ UNCHANGED <<rlVars, sleepLeft, caller, started, acqs, fVars>>
    /\ UNCHANGED <<valVars, adVars>>

\* self.stats['successful_requests'] += 1   (load)
FSuccLoad(t) ==
    /\ pc[t] = "f_succ_load"
    /\ reg' = [reg EXCEPT ![t] = stats.successful_requests]
    /\ pc' = [pc EXCEPT ![t] = "f_succ_store"]
    /\ UNCHANGED <<rlVars, sleepLeft, caller, started, robot_parsers,
                   stats, url, attempt, total, exc, result, reqs, waits, acqs,
                   histVars, cancelled>>
    /\ UNCHANGED <<valVars, adVars>>

\* self.stats['successful_requests'] += 1   (store); return response
FSuccStore(t) ==
    /\ pc[t] = "f_succ_store"
    /\ stats' = [stats EXCEPT !.successful_requests = reg[t] + 1]
    /\ reg' = [reg EXCEPT ![t] = 0]
    /\ result' = [result EXCEPT ![t] = "Response"]
    /\ pc' = [pc EXCEPT ![t] = "idle"]
    /\ UNCHANGED <<rlVars, sleepLeft, caller, started, robot_parsers,
                   url, attempt, total, exc, reqs, waits, acqs, histVars,
                   cancelled>>
    /\ UNCHANGED <<valVars, adVars>>

\* except requests.RequestException: self.stats['failed_requests'] += 1 (load)
FFailLoad(t) ==
    /\ pc[t] = "f_fail_load"
    /\ reg' = [reg EXCEPT ![t] = stats.failed_requests]
    /\ pc' = [pc EXCEPT ![t] = "f_fail_store"]
    /\ UNCHANGED <<rlVars, sleepLeft, caller, started, robot_parsers,
                   stats, url, attempt, total, exc, result, reqs, waits, acqs,
                   histVars, cancelled>>
    /\ UNCHANGED <<valVars, adVars>>

\* self.stats['failed_requests'] += 1 (store); raise.  The @retry decorator
\* then decides: exception not of a retried type -> it propagates;
\* stop_after_attempt(MAX_RETRIES) reached -> tenacity raises its RetryError
\* (the decorator does not set reraise); otherwise sleep wait_exponential.
FFailStore(t) ==
    /\ pc[t] = "f_fail_store"
    /\ stats' = [stats EXCEPT !.failed_requests = reg[t] + 1]
    /\ reg' = [reg EXCEPT ![t] = 0]
    /\ exc' = [exc EXCEPT ![t] = "none"]
    /\ IF exc[t] \notin RetryTypes
       THEN /\ result' = [result EXCEPT ![t] = exc[t]]
            /\ pc' = [pc EXCEPT ![t] = "idle"]
            /\ UNCHANGED <<waits, sleepLeft>>
       ELSE IF attempt[t] >= MAX_RETRIES
       THEN /\ result' = [result EXCEPT ![t] = "tenacity.RetryError"]
            /\ pc' = [pc EXCEPT ![t] = "idle"]
            /\ UNCHANGED <<waits, sleepLeft>>
       ELSE /\ waits' = [waits EXCEPT ![t] = Append(@, WaitExponential(attempt[t]))]
            /\ sleepLeft' = [sleepLeft EXCEPT ![t] = WaitExponential(attempt[t])]
            /\ pc' = [pc EXCEPT ![t] = "f_backoff"]
            /\ UNCHANGED result
    /\ UNCHANGED <<rlVars, caller, started, robot_parsers, url,
                   attempt, total, reqs, acqs, histVars, cancelled>>
    /\ UNCHANGED <<valVars, adVars>>

\* the backoff sleep is over: tenacity calls fetch_url's body again
FBackoffWake(t) ==
    /\ pc[t] = "f_backoff"
    /\ sleepLeft[t] = 0
    /\ attempt' = [attempt EXCEPT ![t] = @ + 1]
    /\ pc' = [pc EXCEPT ![t] = "f_can_fetch"]
    /\ UNCHANGED <<rlVars, sleepLeft, caller, started, robot_parsers,
                   stats, url, total, reg, exc, result, reqs, waits, acqs,
                   histVars, cancelled>>
    /\ UNCHANGED <<valVars, adVars>>

ZeroStats ==
    [total_requests |-> 0, successful_requests |-> 0, failed_requests |-> 0]

\* BaseScraper.reset_stats, called between fetches
ResetStats(t) ==
    /\ pc[t] = "idle"
    /\ stats # ZeroStats
    /\ stats' = ZeroStats
    /\ attemptsMade' = 0
    /\ UNCHANGED <<rlVars, thVars, started, robot_parsers, callVars,
                   acqs, httpSent, blocked, robotsReads, cancelled>>
    /\ UNCHANGED <<valVars, adVars>>

\* the environment raises the cancellation signal (e.g. the overall scrape
\* timeout expires); fetch_url takes no such signal and never reads one
Cancel ==
    /\ ~cancelled
    /\ \E t \in Threads : pc[t] # "idle"
    /\ cancelled' = TRUE
    /\ UNCHANGED <<rlVars, thVars, started, robot_parsers, stats,
                   callVars, acqs, histVars>>
    /\ UNCHANGED <<valVars, adVars>>

(* ------------------- AuthenticityValidator: data ---------------------- *)
MIN_AUTHENTICITY_SCORE == 75

\* dict.get(k, default), d[k] = v, and the empty dict
EmptyDict == <<>>
Get(d, k, default) == IF k \in DOMAIN d THEN d[k] ELSE default
Put(d, k, v) == [x \in DOMAIN d \cup {k} |-> IF x = k THEN v ELSE d[x]]

\* host names are strings of characters, written label by label
L_www == <<"w", "w", "w">>
L_tim == <<"t", "i", "m">>
L_blog == <<"b", "l", "o", "g">>
L_sub == <<"s", "u", "b">>
L_evil == <<"e", "v", "i", "l">>
L_com == <<"c", "o", "m">>
Labels == {L_www, L_tim, L_blog, L_sub, L_evil, L_com}
Dot == <<".">>

RECURSIVE JoinDots(_)
JoinDots(ls) ==
    IF ls = <<>> THEN <<>>
    ELSE IF Len(ls) = 1 THEN ls[1]
    ELSE ls[1] \o Dot \o JoinDots(Tail(ls))

TimBlog == JoinDots(<<L_tim, L_blog>>)
WwwTimBlog == JoinDots(<<L_www, L_tim, L_blog>>)
SubTimBlog == JoinDots(<<L_sub, L_tim, L_blog>>)
EvilCom == JoinDots(<<L_evil, L_com>>)
BlogCom == JoinDots(<<L_blog, L_com>>)
\* a netloc that urlparse rejects ("Invalid IPv6 URL")
BadNetloc == <<"[">> \o L_evil

\* a URL "https://<netloc>/x"; the empty string '' has no netloc
URL(netloc) == [netloc |-> netloc, path |-> "/x"]
NoUrl == [netloc |-> <<>>, path |-> ""]

\* urlparse(url) raises ValueError on an unbalanced bracket in the netloc
UrlparseRaises(u) ==
    LET cs == {u.netloc[i] : i \in DOMAIN u.netloc}
    IN  ("[" \in cs) # ("]" \in cs)

\* s.replace('www.', ''): every occurrence, scanning left to right
RECURSIVE ReplaceWww(_)
ReplaceWww(s) ==
    IF Len(s) < 4 THEN s
    ELSE IF SubSeq(s, 1, 4) = <<"w", "w", "w", ".">>
         THEN ReplaceWww(SubSeq(s, 5, Len(s)))
         ELSE <<s[1]>> \o ReplaceWww(Tail(s))

\* s.endswith(suffix)
EndsWith(s, suffix) ==
    /\ Len(s) >= Len(suffix)
    /\ SubSeq(s, Len(s) - Len(suffix) + 1, Len(s)) = suffix

\* x in list
InList(x, list) == \E i \in DOMAIN list : list[i] = x

\* the author table returned by load_authors_config(): one fully described
\* author, one known only through a blog, one with a name and nothing else
AuthorsFile ==
    ("tim" :> [name |-> "Tim Ferriss",
               official_domains |-> <<TimBlog>>,
               blogs |-> <<[name |-> "Tim's Blog", url |-> URL(WwwTimBlog)]>>,
               youtube_channels |-> <<[name |-> "Tim Ferriss"]>>,
               podcasts |-> <<[name |-> "The Tim Ferriss Show"]>>,
               books |-> <<[title |-> "Tools of Titans"]>>])
    @@ ("jane" :> [name |-> "Jane",
                   blogs |-> <<[name |-> "Jane Writes", url |-> URL(BlogCom)]>>])
    @@ ("nodom" :> [name |-> "No Domains"])

\* the loop of _build_domain_whitelist over an author's blogs
RECURSIVE AddBlogDomains(_, _)
AddBlogDomains(domains, blogs) ==
    IF blogs = <<>> THEN domains
    ELSE LET blog_url == Get(Head(blogs), "url", NoUrl)
             domain == ReplaceWww(blog_url.netloc)
         IN  IF blog_url # NoUrl /\ domain # <<>> /\ ~InList(domain, domains)
             THEN AddBlogDomains(Append(domains, domain), Tail(blogs))
             ELSE AddBlogDomains(domains, Tail(blogs))

_build_domain_whitelist(config) ==
    [author_id \in DOMAIN config |->
        AddBlogDomains(Get(config[author_id], "official_domains", <<>>),
                       Get(config[author_id], "blogs", <<>>))]

\* the list config['official_domains'] is extended in place by the builder
AfterWhitelist(config) ==
    [author_id \in DOMAIN config |->
        IF "official_domains" \in DOMAIN config[author_id]
        THEN Put(config[author_id], "official_domains",
                 _build_domain_whitelist(config)[author_id])
        ELSE config[author_id]]

(* ----------------- AuthenticityValidator: sub-scores ------------------ *)
_verify_domain(u, author_id, official) ==
    IF u = NoUrl THEN 0
    ELSE LET domains == Get(official, author_id, <<>>)
         IN  IF domains = <<>> THEN 20
             ELSE IF UrlparseRaises(u) THEN 0
             ELSE LET domain == ReplaceWww(u.netloc)
                  IN  IF InList(domain, domains) THEN 40
                      ELSE IF \E i \in DOMAIN domains :
                                 \/ EndsWith(domain, Dot \o domains[i])
                                 \/ domain = domains[i]
                           THEN 35
                           ELSE 0

_verify_twitter(author_config, metadata) == 40

_verify_youtube_NoChannelsFull(author_config, metadata) ==
    LET channel_name == Get(metadata, "channel_name", "")
        channels == Get(author_config, "youtube_channels", <<>>)
    IN  IF \E i \in DOMAIN channels :
               Get(channels[i], "name", "<None>") = channel_name
        THEN 40
        ELSE IF channels = <<>> THEN 40 ELSE 15

_verify_youtube(author_config, metadata) ==
    LET channel_name == Get(metadata, "channel_name", "")
        channels == Get(author_config, "youtube_channels", <<>>)
    IN  IF \E i \in DOMAIN channels :
               Get(channels[i], "name", "<None>") = channel_name
        THEN 40
        ELSE IF channels = <<>> THEN 30 ELSE 15

_verify_blog(author_config, metadata) ==
    LET blog_name == Get(metadata, "blog_name", "")
        domain == Get(metadata, "domain", <<>>)
        blogs == Get(author_config, "blogs", <<>>)
    IN  IF \E i \in DOMAIN blogs :
               \/ Get(blogs[i], "name", "<None>") = blog_name
               \/ ReplaceWww(Get(blogs[i], "url", NoUrl).netloc) = domain
        THEN 40
        ELSE 15

_verify_podcast(author_config, metadata) ==
    LET podcast_name == Get(metadata, "podcast_name", "")
        podcasts == Get(author_config, "podcasts", <<>>)
    IN  IF \E i \in DOMAIN podcasts :
               Get(podcasts[i], "name", "<None>") = podcast_name
        THEN 40
        ELSE 25

_verify_book(author_config, metadata) ==
    LET book_title == Get(metadata, "book_title", "")
        books == Get(author_config, "books", <<>>)
    IN  IF \E i \in DOMAIN books :
               Get(books[i], "title", "<None>") = book_title
        THEN 40
        ELSE 10

_verify_platform_NoEmptyCase(platform, author_id, metadata, config) ==
    LET author_config == Get(config, author_id, EmptyDict)
    IN  CASE platform = "twitter" -> _verify_twitter(author_config, metadata)
          [] platform = "youtube" -> _verify_youtube(author_config, metadata)
          [] platform = "blog" -> _verify_blog(author_config, metadata)
          [] platform = "podcast" -> _verify_podcast(author_config, metadata)
          [] platform = "book" -> _verify_book(author_config, metadata)
          [] OTHER -> 20

_verify_platform(platform, author_id, metadata, config) ==
    IF platform = "" THEN 0
    ELSE LET author_config == Get(config, author_id, EmptyDict)
         IN  CASE platform = "twitter" -> _verify_twitter(author_config, metadata)
               [] platform = "youtube" -> _verify_youtube(author_config, metadata)
               [] platform = "blog" -> _verify_blog(author_config, metadata)
               [] platform = "podcast" -> _verify_podcast(author_config, metadata)
               [] platform = "book" -> _verify_book(author_config, metadata)
               [] OTHER -> 20

\* a word_count that is not a number (e.g. a str): `word_count > 50` raises
NotANumber == -1

\* bool(x) of a number
Truthy(n) == n # 0

MetadataRaises(metadata) == Get(metadata, "word_count", 0) = NotANumber

_verify_metadata_MetricsPresent(metadata) ==
    LET word_count == Get(metadata, "word_count", 0)
        s1 == IF word_count > 50 THEN 5 ELSE 0
        s2 == IF "metrics" \in DOMAIN metadata THEN 5 ELSE 0
        s3 == IF Truthy(Get(metadata, "word_count", 0)) THEN 5 ELSE 0
        s4 == IF Cardinality(DOMAIN metadata) > 2 THEN 5 ELSE 0
    IN  Min(20, s1 + s2 + s3 + s4)

\* metadata['metrics'] is represented by the number of entries of that dict
_verify_metadata(metadata) ==
    LET word_count == Get(metadata, "word_count", 0)
        s1 == IF word_count > 50 THEN 5 ELSE 0
        s2 == IF Truthy(Get(metadata, "metrics", 0)) THEN 5 ELSE 0
        s3 == IF Truthy(Get(metadata, "word_count", 0)) THEN 5 ELSE 0
        s4 == IF Cardinality(DOMAIN metadata) > 2 THEN 5 ELSE 0
    IN  Min(20, s1 + s2 + s3 + s4)

Clamp(score) == Min(100, Max(0, score))

_calculate_authenticity_score_NoMetadata(author_id, platform, u, metadata, config, official) ==
    Clamp(_verify_domain(u, author_id, official)
          + _verify_platform(platform, author_id, metadata, config))

_calculate_authenticity_score(author_id, platform, u, metadata, config, official) ==
    Clamp(_verify_domain(u, author_id, official)
          + _verify_platform(platform, author_id, metadata, config)
          + _verify_metadata(metadata))

(* ------------------- AuthenticityValidator.validate ------------------- *)
\* validate that also stores the word count it used
ValidateOutcome_FillsWordCount(content, config, official) ==
    LET author_id == Get(content, "author", "")
        platform == Get(content, "platform", "")
        u == Get(content, "url", NoUrl)
        metadata == Get(content, "metadata", EmptyDict)
        d == _verify_domain(u, author_id, official)
        p == _verify_platform(platform, author_id, metadata, config)
        m == _verify_metadata(metadata)
        score == _calculate_authenticity_score(author_id, platform, u,
                                               metadata, config, official)
        scored == Put(content, "authenticity_score", score)
        validation == Put(Put(Get(metadata, "validation", EmptyDict),
                              "authenticity_score", score),
                          "passed", score >= MIN_AUTHENTICITY_SCORE)
    IN  IF author_id = ""
        THEN \* no author: score 0 and return at once
             [content |-> Put(content, "authenticity_score", 0),
              raised |-> FALSE, score |-> 0,
              domain |-> -1, platform |-> -1, metadata |-> -1]
        ELSE IF MetadataRaises(metadata)
        THEN \* TypeError inside _verify_metadata: nothing has been written
             [content |-> content, raised |-> TRUE, score |-> -1,
              domain |-> d, platform |-> p, metadata |-> -1]
        ELSE IF "metadata" \notin DOMAIN content
        THEN \* the score is stored, then content['metadata'] raises KeyError
             [content |-> scored, raised |-> TRUE, score |-> score,
              domain |-> d, platform |-> p, metadata |-> m]
        ELSE [content |-> Put(scored, "metadata",
                              Put(Put(metadata, "validation", validation),
                                  "word_count", Get(metadata, "word_count", 0))),
              raised |-> FALSE, score |-> score,
              domain |-> d, platform |-> p, metadata |-> m]

\* What one call validate(content) does: the dict it leaves behind, whether
\* it raised, and what it computed (-1: not computed / nothing written).
ValidateOutcome(content, config, official) ==
    LET author_id == Get(content, "author", "")
        platform == Get(content, "platform", "")
        u == Get(content, "url", NoUrl)
        metadata == Get(content, "metadata", EmptyDict)
        d == _verify_domain(u, author_id, official)
        p == _verify_platform(platform, author_id, metadata, config)
        m == _verify_metadata(metadata)
        score == _calculate_authenticity_score(author_id, platform, u,
                                               metadata, config, official)
        scored == Put(content, "authenticity_score", score)
        validation == Put(Put(Get(metadata, "validation", EmptyDict),
                              "authenticity_score", score),
                          "passed", score >= MIN_AUTHENTICITY_SCORE)
    IN  IF author_id = ""
        THEN \* no author: score 0 and return at once
             [content |-> Put(content, "authenticity_score", 0),
              raised |-> FALSE, score |-> 0,
              domain |-> -1, platform |-> -1, metadata |-> -1]
        ELSE IF MetadataRaises(metadata)
        THEN \* TypeError inside _verify_metadata: nothing has been written
             [content |-> content, raised |-> TRUE, score |-> -1,
              domain |-> d, platform |-> p, metadata |-> -1]
        ELSE IF "metadata" \notin DOMAIN content
        THEN \* the score is stored, then content['metadata'] raises KeyError
             [content |-> scored, raised |-> TRUE, score |-> score,
              domain |-> d, platform |-> p, metadata |-> m]
        ELSE [content |-> Put(scored, "metadata",
                              Put(metadata, "validation", validation)),
              raised |-> FALSE, score |-> score,
              domain |-> d, platform |-> p, metadata |-> m]

\* the log entry of a call
LogEntry(out) == [x \in DOMAIN out \ {"content"} |-> out[x]]

gatewayVars == <<rlVars, thVars, started, acqs, fVars, adVars>>

\* a caller runs validator.validate(contents[i])
Validate(i) ==
    /\ bpc = "idle"
    /\ Len(vlog[i]) < MaxValidations
    /\ LET out == ValidateOutcome(contents[i], authors_config, official_domains)
       IN  /\ contents' = [contents EXCEPT ![i] = out.content]
           /\ vlog' = [vlog EXCEPT ![i] = Append(@, LogEntry(out))]
    /\ UNCHANGED <<authors_config, official_domains, orig, bpc, bidx,
                   validated, fmin, filtered, gatewayVars>>

(* ---------------- AuthenticityValidator.validate_batch ---------------- *)
\* validate_batch(contents) is entered: validated = []
BatchCall ==
    /\ bpc = "idle"
    /\ bpc' = "loop"
    /\ bidx' = 1
    /\ validated' = <<>>
    /\ UNCHANGED <<authors_config, official_domains, contents, orig, vlog,
                   fmin, filtered, gatewayVars>>

\* one iteration of a loop that has no try/except around validate
BatchIter_NoTry ==
    /\ bpc = "loop"
    /\ bidx <= Len(contents)
    /\ LET out == ValidateOutcome(contents[bidx], authors_config, official_domains)
       IN  /\ contents' = [contents EXCEPT ![bidx] = out.content]
           /\ vlog' = [vlog EXCEPT ![bidx] = Append(@, LogEntry(out))]
           /\ validated' = IF out.raised THEN validated ELSE Append(validated, bidx)
           /\ bpc' = IF out.raised THEN "raised" ELSE bpc
    /\ bidx' = bidx + 1
    /\ UNCHANGED <<authors_config, official_domains, orig, fmin, filtered,
                   gatewayVars>>

\* one iteration of a loop whose validate call remembers the host it saw
BatchIter_Learning ==
    /\ bpc = "loop"
    /\ bidx <= Len(contents)
    /\ LET out == ValidateOutcome(contents[bidx], authors_config, official_domains)
           author_id == Get(contents[bidx], "author", "")
           host == ReplaceWww(Get(contents[bidx], "url", NoUrl).netloc)
       IN  /\ contents' = [contents EXCEPT ![bidx] =
                              IF out.raised
                              THEN Put(out.content, "authenticity_score", 0)
                              ELSE out.content]
           /\ vlog' = [vlog EXCEPT ![bidx] = Append(@, LogEntry(out))]
           /\ official_domains' =
                  IF author_id \in DOMAIN official_domains
                  THEN [official_domains EXCEPT ![author_id] = Append(@, host)]
                  ELSE official_domains
    /\ validated' = Append(validated, bidx)
    /\ bidx' = bidx + 1
    /\ UNCHANGED <<authors_config, orig, bpc, fmin, filtered, gatewayVars>>

\* one iteration of the loop: try validate, on Exception score 0; append
BatchIter ==
    /\ bpc = "loop"
    /\ bidx <= Len(contents)
    /\ LET out == ValidateOutcome(contents[bidx], authors_config, official_domains)
       IN  /\ contents' = [contents EXCEPT ![bidx] =
                              IF out.raised
                              THEN Put(out.content, "authenticity_score", 0)
                              ELSE out.content]
           /\ vlog' = [vlog EXCEPT ![bidx] = Append(@, LogEntry(out))]
    /\ validated' = Append(validated, bidx)
    /\ bidx' = bidx + 1
    /\ UNCHANGED <<authors_config, official_domains, orig, bpc, fmin,
                   filtered, gatewayVars>>

\* the loop is over: return validated
BatchReturn ==
    /\ bpc = "loop"
    /\ bidx > Len(contents)
    /\ bpc' = "done"
    /\ UNCHANGED <<authors_config, official_domains, contents, orig, vlog,
                   bidx, validated, fmin, filtered, gatewayVars>>

(* ---------------- AuthenticityValidator.filter_by_score --------------- *)
\* min_score=None
NotGiven == -1

\* filter_by_score(validated, min_score): `min_score or MIN_AUTHENTICITY_SCORE`
FilterThreshold(min_score) ==
    IF min_score = NotGiven \/ ~Truthy(min_score)
    THEN MIN_AUTHENTICITY_SCORE
    ELSE min_score

FilterByScore(min_score) ==
    /\ bpc = "done"
    /\ bpc' = "filtered"
    /\ fmin' = min_score
    /\ LET Keep(i) == Get(contents[i], "authenticity_score", 0)
                          >= FilterThreshold(min_score)
       IN  filtered' = SelectSeq(validated, Keep)
    /\ UNCHANGED <<authors_config, official_domains, contents, orig, vlog,
                   bidx, validated, gatewayVars>>

(* ------------------------ content dicts (inputs) ---------------------- *)
\* host names of up to MaxLabels labels
RECURSIVE LabelSeqs(_)
LabelSeqs(n) ==
    IF n = 0 THEN {<<>>}
    ELSE LabelSeqs(n - 1)
         \cup {Append(ls, l) : ls \in {s \in LabelSeqs(n - 1) : Len(s) = n - 1},
                               l \in Labels}

HostsU == {JoinDots(ls) : ls \in LabelSeqs(MaxLabels) \ {<<>>}}

AuthorOpts == {EmptyDict} \cup {"author" :> a : a \in {"tim", "nodom", "ghost"}}
HostAuthorOpts == AuthorOpts \cup {"author" :> "jane"}
PlatformOpts ==
    {EmptyDict} \cup {"platform" :> p : p \in {"", "twitter", "youtube", "blog",
                                               "podcast", "book", "tiktok"}}
UrlOpts ==
    {EmptyDict} \cup {"url" :> URL(h) : h \in {TimBlog, EvilCom, BadNetloc}}
WordCountOpts == {EmptyDict} \cup {"word_count" :> n : n \in {0, 10, 500, NotANumber}}
MetricsOpts == {EmptyDict} \cup {"metrics" :> n : n \in {0, 2}}
NameOpts ==
    {EmptyDict}
    \cup {"blog_name" :> n : n \in {"Tim's Blog", "Other"}}
    \cup {"channel_name" :> "Tim Ferriss", "podcast_name" :> "The Tim Ferriss Show",
          "book_title" :> "Tools of Titans"}
DomainOpts == {EmptyDict, "domain" :> TimBlog}
ExtraOpts == {EmptyDict, "tweet_id" :> "1"}

MetadataU ==
    {wc @@ mt @@ nm @@ dm @@ ex : wc \in WordCountOpts, mt \in MetricsOpts,
                                  nm \in NameOpts, dm \in DomainOpts,
                                  ex \in ExtraOpts}
MetadataOpts == {EmptyDict} \cup {"metadata" :> md : md \in MetadataU}

\* content dicts handed to validate one at a time
ContentsU ==
    {a @@ p @@ u @@ md : a \in AuthorOpts, p \in PlatformOpts,
                         u \in UrlOpts, md \in MetadataOpts}

\* content dicts that differ in the host of their url only
HostContentsU ==
    {a @@ ("platform" :> "twitter") @@ ("url" :> URL(h))
       @@ ("metadata" :> EmptyDict) : a \in HostAuthorOpts, h \in HostsU \cup {BadNetloc}}

\* the content dicts batches are made of
FullExample ==
    [author |-> "tim", platform |-> "blog", url |-> URL(TimBlog),
     metadata |-> [blog_name |-> "Tim's Blog", word_count |-> 500, metrics |-> 2]]
\* a record of a known author whose url urlparse rejects
MalformedUrlExample ==
    [author |-> "tim", platform |-> "twitter", url |-> URL(BadNetloc),
     metadata |-> [word_count |-> 500, metrics |-> 2, tweet_id |-> "1"]]
BatchContentsU ==
    { FullExample,
      [FullExample EXCEPT !.metadata.metrics = 0],
      [platform |-> "blog", url |-> URL(TimBlog),
       metadata |-> [blog_name |-> "Tim's Blog"]],
      [author |-> "tim", platform |-> "twitter", url |-> URL(TimBlog)],
      [author |-> "tim", platform |-> "twitter", url |-> URL(TimBlog),
       metadata |-> [word_count |-> NotANumber]],
      MalformedUrlExample,
      [author |-> "nodom", platform |-> "twitter", url |-> URL(EvilCom),
       metadata |-> [word_count |-> 500, tweet_id |-> "1", lang |-> "en"]],
      [author |-> "tim", platform |-> "twitter", url |-> URL(EvilCom),
       metadata |-> EmptyDict] }

RECURSIVE SeqsUpTo(_, _)
SeqsUpTo(S, n) ==
    IF n = 0 THEN {<<>>}
    ELSE SeqsUpTo(S, n - 1)
         \cup {Append(s, x) : s \in {q \in SeqsUpTo(S, n - 1) : Len(q) = n - 1},
                              x \in S}

BatchesU == SeqsUpTo(BatchContentsU, MaxBatch) \ {<<>>}

(* ------------------------- specifications ----------------------------- *)
\* AuthenticityValidator.__init__ has run; `cs` are the content dicts the
\* validator is going to be given
InitValidator(cs) ==
    /\ authors_config = AfterWhitelist(AuthorsFile)
    /\ official_domains = _build_domain_whitelist(AuthorsFile)
    /\ contents = cs
    /\ orig = cs
    /\ vlog = [i \in DOMAIN cs |-> <<>>]
    /\ bpc = "idle"
    /\ bidx = 0
    /\ validated = <<>>
    /\ fmin = NotGiven
    /\ filtered = <<>>

InitGateway ==
    /\ timestamps = <<>>
    /\ lock = NoThread
    /\ pc = [t \in Threads |-> "idle"]
    /\ sleepLeft = [t \in Threads |-> 0]
    /\ caller = [t \in Threads |-> "none"]
    /\ window = <<>>
    /\ appends = 0
    /\ rlReturns = 0
    /\ started = 0
    /\ robot_parsers = [h \in Hosts |-> "absent"]
    /\ stats = ZeroStats
    /\ url = [t \in Threads |-> NoURL]
    /\ attempt = [t \in Threads |-> 0]
    /\ total = [t \in Threads |-> 0]
    /\ reg = [t \in Threads |-> 0]
    /\ exc = [t \in Threads |-> "none"]
    /\ result = [t \in Threads |-> "none"]
    /\ reqs = [t \in Threads |-> 0]
    /\ waits = [t \in Threads |-> <<>>]
    /\ acqs = [t \in Threads |-> 0]
    /\ httpSent = 0
    /\ blocked = 0
    /\ attemptsMade = 0
    /\ robotsReads = [h \in Hosts |-> 0]
    /\ cancelled = FALSE
    /\ acalls = initial_calls
    /\ consecutive_rate_limits = 0

\* the gateway as constructed, next to a validator that is given nothing
Init ==
    /\ InitGateway
    /\ InitValidator(<<>>)

\* threads sharing one RateLimiter and calling wait_if_needed directly
NextLimiter ==
    \/ Tick
    \/ \E t \in Threads :
         \/ CallWait(t)
         \/ RLAcquire(t)
         \/ RLCheck(t)
         \/ RLWake(t)
         \/ RLRelease(t)

SpecLimiter == Init /\ [][NextLimiter]_vars

\* the same under a fair scheduler and a clock that keeps advancing: a thread
\* that can take a step eventually takes it, and a thread waiting for the
\* lock gets it if the lock is free again and again
FairLimiter ==
    /\ WF_vars(Tick)
    /\ \A t \in Threads :
         /\ SF_vars(RLAcquire(t))
         /\ WF_vars(RLCheck(t))
         /\ WF_vars(RLWake(t))
         /\ WF_vars(RLRelease(t))

SpecLimiterLive == Init /\ [][NextLimiter]_vars /\ FairLimiter

\* one scraper instance used by one thread: a sequence of fetch_url calls
FetchStep(t) ==
    \/ FCanFetch(t)
    \/ FRobotsRead(t)
    \/ RLAcquire(t)
    \/ RLCheck(t)
    \/ RLWake(t)
    \/ RLRelease(t)
    \/ FTotalLoad(t)
    \/ FTotalStore(t)
    \/ FRequest(t)
    \/ FRetryWake(t)
    \/ FSuccLoad(t)
    \/ FSuccStore(t)
    \/ FFailLoad(t)
    \/ FFailStore(t)
    \/ FBackoffWake(t)

NextFetch ==
    \/ Tick
    \/ \E u \in URLs : StartFetch(1, u)
    \/ ResetStats(1)
    \/ FetchStep(1)

SpecFetch == Init /\ [][NextFetch]_vars

\* the same, with an environment that may raise the cancellation signal
NextCancel ==
    \/ NextFetch
    \/ Cancel

SpecCancel == Init /\ [][NextCancel]_vars

\* one scraper instance shared by several threads (worker pool)
NextConc ==
    \/ Tick
    \/ \E t \in Threads :
         \/ \E u \in ConcURLs : StartFetch(t, u)
         \/ FetchStep(t)

SpecConc == Init /\ [][NextConc]_vars

\* threads sharing one AdaptiveRateLimiter: they wait on it and report
\* rate-limit hits and successes to it
NextAdaptive ==
    \/ Tick
    \/ \E t \in Threads :
         \/ ACallWait(t)
         \/ AAcquire(t)
         \/ ACheck(t)
         \/ AWake(t)
         \/ ARelease(t)
         \/ throttle_down(t)
         \/ throttle_up(t)

SpecAdaptive == Init /\ [][NextAdaptive]_vars

\* a validator scoring one content dict, possibly more than once
InitValidate ==
    /\ InitGateway
    /\ \E c \in ContentsU \cup HostContentsU : InitValidator(<<c>>)

NextValidate == \E i \in DOMAIN contents : Validate(i)

SpecValidate == InitValidate /\ [][NextValidate]_vars

\* a validator scoring a batch, whose output is then filtered
InitBatch ==
    /\ InitGateway
    /\ \E cs \in BatchesU : InitValidator(cs)

NextBatch ==
    \/ BatchCall
    \/ BatchIter
    \/ BatchReturn
    \/ \E m \in (0..100) \cup {NotGiven} : FilterByScore(m)

SpecBatch == InitBatch /\ [][NextBatch]_vars

(* ------------------------------ claims -------------------------------- *)
\* C1: at every instant the number of recorded acquisition timestamps in
\* the trailing window of length period ending at that instant never exceeds calls.
C1_WindowBound == Len(window) <= calls

\* a caller that had to sleep for a slot has recorded its timestamp
C1_Witness ==
    /\ appends > calls
    /\ Len(window) = calls

\* C2: under any interleaving of threads calling wait_if_needed, a call
\* that returns has appended exactly one timestamp, no recorded slot is lost
\* from or duplicated in the deque, the deque is in chronological order and
\* never holds more than calls timestamps.
C2_ConcurrentSlots ==
    /\ \A t \in Threads : pc[t] = "rl_release" => acqs[t] = 1
    /\ appends = rlReturns + Cardinality({t \in Threads : pc[t] = "rl_release"})
    /\ SelectSeq(timestamps, Recent) = window
    /\ \A i, j \in DOMAIN timestamps : i < j => timestamps[i] >= timestamps[j]
    /\ Len(timestamps) <= calls

\* a call returns after sleeping for its slot while another thread is
\* blocked on the lock
C2_Witness ==
    \E t1, t2 \in Threads :
        /\ pc[t1] = "rl_release"
        /\ pc[t2] = "rl_lock"
        /\ appends > calls

\* C3: a policy-blocked fetch_url call never reaches the rate limiter nor
\* the HTTP request: the call has appended no timestamp and sent nothing,
\* and the step that blocks it leaves the limiter's timestamps as they were.
C3_BlockedKeepsLimiter ==
    /\ [](\A t \in Threads : result[t] = "ValueError" =>
              acqs[t] = 0 /\ reqs[t] = 0 /\ waits[t] = <<>>)
    /\ [][blocked' # blocked =>
              timestamps' = timestamps /\ appends' = appends
              /\ httpSent' = httpSent]_vars

\* a fetch is blocked after an earlier fetch has recorded a timestamp
C3_Witness ==
    /\ result[1] = "ValueError"
    /\ blocked >= 1
    /\ Len(timestamps) >= 1

\* C4 (as claimed): a fetch answered 404 ends after exactly one attempt,
\* with no retry and no backoff wait.
C4_Original ==
    \A t \in Threads :
        (url[t].path = "/missing" /\ attempt[t] >= 1) =>
            attempt[t] = 1 /\ waits[t] = <<>>

\* C5 (as claimed): one fetch_url call never sends more than MAX_RETRIES
\* HTTP requests to its target.
C5_Original == \A t \in Threads : reqs[t] <= MAX_RETRIES

\* C6 (as claimed): a URL answering 503, 503, 200 is fetched successfully
\* after exactly two backoff waits, each within 4..10 seconds, and three
\* rate-limiter acquisitions.
C6_Original ==
    \A t \in Threads :
        (url[t].path = "/flaky" /\ result[t] = "Response") =>
            /\ Len(waits[t]) = 2
            /\ \A i \in DOMAIN waits[t] : waits[t][i] \in WAIT_MIN..WAIT_MAX
            /\ acqs[t] = 3

\* C7 (as claimed): when all MAX_RETRIES attempts end in a retryable
\* failure, what fetch_url raises is a requests.RequestException.
C7_Original ==
    \A t \in Threads :
        (/\ pc[t] = "idle"
         /\ url[t].path \in {"/unavail", "/down"}
         /\ attempt[t] = MAX_RETRIES
         /\ result[t] # "none") =>
            result[t] \in RequestExceptions

\* C8 (as claimed): once the robots.txt download of a host has failed, every
\* URL of that host is allowed.
C8_Original ==
    \A h \in Hosts :
        (robot_parsers[h] # "absent" /\ RobotsAnswer(h) # "rules") =>
            \A p \in Paths : can_fetch([host |-> h, path |-> p])

\* C9 (as claimed): whenever no fetch is in flight, total_requests equals
\* successful_requests + failed_requests and the number of attempts made.
C9_Original ==
    (\A t \in Threads : pc[t] = "idle") =>
        /\ stats.total_requests = stats.successful_requests + stats.failed_requests
        /\ stats.total_requests = attemptsMade

\* C10 (as claimed): once the cancellation signal is raised, a fetch that
\* is waiting (backoff between retries, or the rate-limiter sleep)
\* leaves its wait by failing: it makes no further attempt.
C10_Original ==
    [][\A t \in Threads :
          (/\ cancelled
           /\ pc[t] \in {"f_backoff", "rl_sleep"}
           /\ pc'[t] # pc[t]) =>
              (pc'[t] = "idle" /\ result'[t] \notin {"none", "Response"})]_vars

(* -------------------- claims: authenticity scoring -------------------- *)
\* the score _calculate_authenticity_score gives the content dict c
ScoreOf(c) ==
    _calculate_authenticity_score(Get(c, "author", ""), Get(c, "platform", ""),
                                  Get(c, "url", NoUrl),
                                  Get(c, "metadata", EmptyDict),
                                  authors_config, official_domains)

\* the outcome of the latest validate call on contents[i]
Last(i) == vlog[i][Len(vlog[i])]

\* C11 as stated: for every record and trust profile, the authenticity score
\* written by validate is an integer in 0..100 equal to
\* min(100, max(0, domain + platform + metadata)).
C11_Original ==
    \A i \in DOMAIN contents :
        (Len(vlog[i]) = 1 /\ "authenticity_score" \in DOMAIN contents[i]) =>
            /\ contents[i].authenticity_score \in 0..100
            /\ contents[i].authenticity_score = ScoreOf(orig[i])

\* C11 amended: for every record that names an author, the authenticity
\* score written by validate is an integer in 0..100 equal to
\* min(100, max(0, domain + platform + metadata)) of the three sub-scores,
\* each computed from the record as it was handed over; a record without an
\* author is given 0 and no sub-score is computed.
C11_ScoreIsClampedSum ==
    \A i \in DOMAIN contents :
        (Len(vlog[i]) >= 1 /\ Last(i).score # -1) =>
            /\ contents[i].authenticity_score = Last(i).score
            /\ Last(i).score \in 0..100
            /\ IF "author" \in DOMAIN orig[i]
               THEN /\ Last(i).score = Clamp(Last(i).domain + Last(i).platform
                                             + Last(i).metadata)
                    /\ Len(vlog[i]) = 1 => Last(i).score = ScoreOf(orig[i])
               ELSE /\ Last(i).score = 0
                    /\ Last(i).domain = -1 /\ Last(i).platform = -1
                    /\ Last(i).metadata = -1

\* a record with an author has been scored and all three sub-scores count
C11_Witness ==
    \E i \in DOMAIN contents :
        /\ Len(vlog[i]) = 1
        /\ "author" \in DOMAIN orig[i]
        /\ Last(i).domain = 40 /\ Last(i).platform = 15 /\ Last(i).metadata = 10
        /\ contents[i].authenticity_score = 65

\* what a content dict carries after scoring: its score and its verdict
ScoreIn(c) == Get(c, "authenticity_score", -1)
ValidationIn(c) == Get(Get(c, "metadata", EmptyDict), "validation", EmptyDict)

\* C12: two scorings of identical (record, profile) inputs, given as two
\* separate copies, yield identical (score, passed), whatever other records
\* the same validator scored before or between them.
C12_Deterministic ==
    \A i, j \in DOMAIN contents :
        (orig[i] = orig[j] /\ Len(vlog[i]) = 1 /\ Len(vlog[j]) = 1) =>
            /\ ScoreIn(contents[i]) = ScoreIn(contents[j])
            /\ ValidationIn(contents[i]) = ValidationIn(contents[j])
            /\ vlog[i] = vlog[j]

\* two copies of one record have been scored, a different record between them
C12_Witness ==
    \E i, k, j \in DOMAIN contents :
        /\ i < k /\ k < j
        /\ orig[i] = orig[j] /\ orig[k] # orig[i]
        /\ Len(vlog[i]) = 1 /\ Len(vlog[k]) = 1 /\ Len(vlog[j]) = 1
        /\ ScoreIn(contents[j]) = 40
        /\ ValidationIn(contents[j]) = [authenticity_score |-> 40, passed |-> FALSE]

\* C13: calling validate again on an already-scored record (the same object,
\* now carrying metadata.validation) reproduces the same score and the same
\* passed verdict.
C13_Original ==
    \A i \in DOMAIN contents :
        (Len(vlog[i]) = 2 /\ ~vlog[i][1].raised /\ ~vlog[i][2].raised) =>
            /\ vlog[i][2].score = vlog[i][1].score
            /\ (vlog[i][2].score >= MIN_AUTHENTICITY_SCORE)
                   = (vlog[i][1].score >= MIN_AUTHENTICITY_SCORE)

\* C14: the domain sub-score is 0 when the url is missing; otherwise 20 when
\* the author has no configured domains; otherwise 40 if and only if the
\* url's host, with a leading "www." stripped, exactly equals a configured
\* official domain; 35 if and only if it equals none but is a subdomain of
\* one; and 0 otherwise.
C14_Original ==
    \A i \in DOMAIN contents :
        (Len(vlog[i]) = 1 /\ vlog[i][1].domain # -1) =>
            LET u == Get(orig[i], "url", NoUrl)
                host == u.netloc
                stripped == IF Len(host) >= 4 /\ SubSeq(host, 1, 4) = L_www \o Dot
                            THEN SubSeq(host, 5, Len(host))
                            ELSE host
                domains == Get(official_domains, Get(orig[i], "author", ""), <<>>)
                exact == InList(stripped, domains)
                subdomain == \E k \in DOMAIN domains :
                                 EndsWith(stripped, Dot \o domains[k])
            IN  vlog[i][1].domain =
                    IF u = NoUrl THEN 0
                    ELSE IF domains = <<>> THEN 20
                    ELSE IF exact THEN 40
                    ELSE IF subdomain THEN 35
                    ELSE 0

\* the platform sub-score the dispatch table of the specification gives a
\* record, `other` being the score of a platform outside the five known ones
PlatformTable(c, other) ==
    LET platform == Get(c, "platform", "")
        metadata == Get(c, "metadata", EmptyDict)
        profile == Get(authors_config, Get(c, "author", ""), EmptyDict)
        Named(list, key, field) ==
            /\ key \in DOMAIN metadata
            /\ \E k \in DOMAIN Get(profile, list, <<>>) :
                   profile[list][k][field] = metadata[key]
        BlogDomain ==
            /\ "domain" \in DOMAIN metadata
            /\ \E k \in DOMAIN Get(profile, "blogs", <<>>) :
                   ReplaceWww(profile.blogs[k].url.netloc) = metadata.domain
    IN  CASE platform = "twitter" -> 40
          [] platform = "youtube" ->
                 IF Named("youtube_channels", "channel_name", "name") THEN 40
                 ELSE IF Get(profile, "youtube_channels", <<>>) = <<>> THEN 30
                 ELSE 15
          [] platform = "blog" ->
                 IF Named("blogs", "blog_name", "name") \/ BlogDomain THEN 40 ELSE 15
          [] platform = "podcast" ->
                 IF Named("podcasts", "podcast_name", "name") THEN 40 ELSE 25
          [] platform = "book" ->
                 IF Named("books", "book_title", "title") THEN 40 ELSE 10
          [] OTHER -> other

\* C15 as stated: twitter always 40; youtube 40 on a channel-name match, 30
\* when the author has no channels configured, else 15; blog 40 when
\* blog_name or domain matches a configured blog, else 15; podcast 40 on a
\* name match, else 25; book 40 on a title match, else 10; every platform
\* value outside these five yields 20.
C15_Original ==
    \A i \in DOMAIN contents :
        (Len(vlog[i]) = 1 /\ vlog[i][1].platform # -1
         /\ "platform" \in DOMAIN orig[i]) =>
            vlog[i][1].platform = PlatformTable(orig[i], 20)

\* C15 amended: the same dispatch for the five known platforms; every
\* non-empty platform value outside these five yields 20, and an empty or
\* missing platform yields 0.
C15_PlatformDispatch ==
    \A i \in DOMAIN contents :
        (Len(vlog[i]) = 1 /\ vlog[i][1].platform # -1) =>
            vlog[i][1].platform =
                PlatformTable(orig[i],
                              IF Get(orig[i], "platform", "") = "" THEN 0 ELSE 20)

\* a record whose platform is the empty string has been scored
C15_Witness ==
    \E i \in DOMAIN contents :
        /\ Len(vlog[i]) = 1
        /\ "platform" \in DOMAIN orig[i] /\ orig[i].platform = ""
        /\ "author" \in DOMAIN orig[i]
        /\ vlog[i][1].platform = 0
        /\ ~vlog[i][1].raised

\* C16: the metadata sub-score is 5 times the number of these conditions
\* that hold: word_count > 50; metrics present and non-empty; word_count
\* present at all (whatever its value, including 0); the metadata has more
\* than 2 keys.
C16_Original ==
    \A i \in DOMAIN contents :
        (Len(vlog[i]) = 1 /\ vlog[i][1].metadata # -1) =>
            LET metadata == Get(orig[i], "metadata", EmptyDict)
                long == "word_count" \in DOMAIN metadata /\ metadata.word_count > 50
                metrics == "metrics" \in DOMAIN metadata /\ metadata.metrics > 0
                counted == "word_count" \in DOMAIN metadata
                rich == Cardinality(DOMAIN metadata) > 2
                holding == {k \in 1..4 : <<long, metrics, counted, rich>>[k]}
            IN  vlog[i][1].metadata = 5 * Cardinality(holding)

\* the record of the worked example, with its empty metrics dict, by the
\* author whose profile has the official domain tim.blog and "Tim's Blog"
EmptyMetricsExample == [FullExample EXCEPT !.metadata.metrics = 0]

\* C17 as stated: the example record scores 40 + 40 + 20 = 100 and passes.
C17_Original ==
    \A i \in DOMAIN contents :
        (orig[i] = EmptyMetricsExample /\ Len(vlog[i]) = 1) =>
            /\ vlog[i][1].metadata = 20
            /\ ScoreIn(contents[i]) = 100
            /\ ValidationIn(contents[i]).passed

\* C17 amended: the example record, whose metrics dict is empty, scores
\* 40 + 40 + 15 = 95 and passes at the default threshold 75.
C17_ExampleScore ==
    \A i \in DOMAIN contents :
        (orig[i] = EmptyMetricsExample /\ Len(vlog[i]) = 1) =>
            /\ vlog[i][1].domain = 40
            /\ vlog[i][1].platform = 40
            /\ vlog[i][1].metadata = 15
            /\ ScoreIn(contents[i]) = 95
            /\ ValidationIn(contents[i]) = [authenticity_score |-> 95, passed |-> TRUE]

\* the example record has been scored once
C17_Witness ==
    \E i \in DOMAIN contents :
        /\ orig[i] = EmptyMetricsExample
        /\ Len(vlog[i]) = 1
        /\ ~vlog[i][1].raised
        /\ "validation" \in DOMAIN contents[i].metadata

\* C18: after validate or validate_batch has processed any record (including
\* a record with a missing author and a record whose scoring failed), the
\* record carries authenticity_score together with metadata.validation
\* holding that same score and passed = (score >= 75).
C18_Original ==
    \A k \in DOMAIN validated :
        LET c == contents[validated[k]]
        IN  /\ "authenticity_score" \in DOMAIN c
            /\ "metadata" \in DOMAIN c
            /\ "validation" \in DOMAIN c.metadata
            /\ c.metadata.validation =
                   [authenticity_score |-> c.authenticity_score,
                    passed |-> c.authenticity_score >= MIN_AUTHENTICITY_SCORE]

\* C19: validate_batch never aborts: it returns exactly one output record per
\* input record, in input order; a record whose scoring raises is returned
\* with authenticity_score = 0, and every record after it is still scored
\* normally.
C19_BatchNeverAborts ==
    /\ bpc \in {"idle", "loop", "done", "filtered"}
    /\ bpc = "loop" => validated = [k \in 1..(bidx - 1) |-> k]
    /\ bpc \in {"done", "filtered"} => validated = [k \in 1..Len(contents) |-> k]
    /\ \A k \in DOMAIN validated :
           LET i == validated[k]
           IN  /\ Len(vlog[i]) = 1
               /\ ScoreIn(contents[i]) =
                      IF vlog[i][1].raised \/ "author" \notin DOMAIN orig[i]
                      THEN 0
                      ELSE ScoreOf(orig[i])

\* a batch has been returned in which a record raised (and got 0) and a
\* later record was scored above 0
C19_Witness ==
    /\ bpc = "done"
    /\ \E i, j \in DOMAIN contents :
           /\ i < j
           /\ vlog[i][1].raised /\ ScoreIn(contents[i]) = 0
           /\ ~vlog[j][1].raised /\ ScoreIn(contents[j]) = 95
           /\ validated[j] = j

\* C20: filter_by_score(contents, min_score = m) returns, in input order,
\* exactly the records with authenticity_score >= m, for every integer m in
\* 0..100; only when min_score is not provided is the threshold
\* MIN_AUTHENTICITY_SCORE.
C20_Original ==
    bpc = "filtered" =>
        LET m == IF fmin = NotGiven THEN MIN_AUTHENTICITY_SCORE ELSE fmin
            AtLeast(i) == Get(contents[i], "authenticity_score", 0) >= m
        IN  filtered = SelectSeq(validated, AtLeast)

(* ------------------ claims: gateway, second series -------------------- *)
\* C21: every HTTP request the fetch gateway sends to a target host (first
\* attempts and every retry, at whichever layer the retry happens) is
\* preceded by its own completed rate-limiter acquisition; hence the number
\* of HTTP requests sent never exceeds the number of recorded rate-limiter
\* timestamps.
C21_Original ==
    /\ httpSent <= appends
    /\ \A t \in Threads : reqs[t] <= acqs[t]

\* C22: no suspension point holds a lock: while a caller is asleep inside
\* the rate limiter waiting for a slot, the limiter's lock is free, so
\* another thread's wait_if_needed() can enter the critical section.
C22_Original ==
    \A t \in Threads : pc[t] = "rl_sleep" => lock = NoThread

\* C23: retries of a single fetch happen one after another and the backoff
\* before retry n is min(max(2^(n-1), 4), 10) seconds: every delay before a
\* retry lies in [4, 10] (and the delays are non-decreasing).
C23_Original ==
    [][\A t \in Threads :
          (pc'[t] \in {"f_backoff", "f_retry_sleep"} /\ pc[t] # pc'[t]) =>
              sleepLeft'[t] \in WAIT_MIN..WAIT_MAX]_vars

\* C24: the crawl-policy cache entry of a host is created on the first query
\* and never expires or changes afterwards: in a sequential series of
\* can_fetch / fetch_url calls on one scraper the host's ruleset is fetched
\* at most once, and an "unavailable" entry is never re-fetched either.
C24_FetchedOnce ==
    \A h \in Hosts :
        /\ robotsReads[h] <= 1
        /\ robotsReads[h] = 0 <=> robot_parsers[h] = "absent"
        /\ robot_parsers[h] \in {"absent", ReadRobots(h)}

\* a second fetch_url call to a host whose robots.txt could not be loaded
\* has passed the policy check using the cached entry
C24_Witness ==
    /\ robot_parsers["rdown"] = "None"
    /\ \A h \in Hosts : robotsReads[h] = IF h = "rdown" THEN 1 ELSE 0
    /\ httpSent >= 1
    /\ url[1].host = "rdown"
    /\ pc[1] = "rl_lock"

(* ------------------- claims: scoring, second series ------------------- *)
\* dict d without the keys of ks
Without(d, ks) == [k \in DOMAIN d \ ks |-> d[k]]

\* C25: validate changes nothing except the record's authenticity_score and
\* metadata.validation: every other field of the record, every other
\* metadata key, and the trust profile held by the validator (authors_config
\* and the official-domain whitelist) are the same after the call as before.
C25_ValidateFrame ==
    /\ authors_config = AfterWhitelist(AuthorsFile)
    /\ official_domains = _build_domain_whitelist(AuthorsFile)
    /\ \A i \in DOMAIN contents :
           /\ Without(contents[i], {"authenticity_score", "metadata"})
                  = Without(orig[i], {"authenticity_score", "metadata"})
           /\ "metadata" \in DOMAIN contents[i] <=> "metadata" \in DOMAIN orig[i]
           /\ "metadata" \in DOMAIN orig[i] =>
                  Without(contents[i].metadata, {"validation"})
                      = Without(orig[i].metadata, {"validation"})

\* a record with a url, a platform and several metadata keys has been
\* scored twice and carries its validation entry
C25_Witness ==
    \E i \in DOMAIN contents :
        /\ Len(vlog[i]) = 2
        /\ {"author", "platform", "url", "metadata"} \subseteq DOMAIN orig[i]
        /\ Cardinality(DOMAIN orig[i].metadata) >= 3
        /\ "word_count" \notin DOMAIN orig[i].metadata
        /\ "validation" \in DOMAIN contents[i].metadata
        /\ ScoreIn(contents[i]) > 0

\* C26: a record whose url is malformed (URL parsing raises while the domain
\* is being verified) counts as a scoring failure: batch scoring gives that
\* record a total authenticity score of 0, whatever its platform and metadata.
C26_Original ==
    \A k \in DOMAIN validated :
        LET c == orig[validated[k]]
            u == Get(c, "url", NoUrl)
        IN  (/\ Get(official_domains, Get(c, "author", ""), <<>>) # <<>>
             /\ u # NoUrl
             /\ UrlparseRaises(u)) =>
                ScoreIn(contents[validated[k]]) = 0

\* the record handed over as contents[i] names an author for whom the
\* trust-profile table has no entry
UnknownAuthor(i) ==
    /\ "author" \in DOMAIN orig[i]
    /\ orig[i].author \notin DOMAIN authors_config

\* C30 as stated: a record whose author has no entry in the trust-profile
\* table never receives passed = true at the default threshold 75, for any
\* platform, url and metadata.
C30_Original ==
    \A i \in DOMAIN contents :
        (UnknownAuthor(i) /\ Len(vlog[i]) >= 1 /\ ~Last(i).raised) =>
            ~ValidationIn(contents[i]).passed

\* C30 amended: such a record receives passed = true exactly when its
\* platform is twitter, it has a url and its metadata sub-score is at least
\* 15 (20 + 40 + 15 = 75); with any other platform it never passes.
C30_UnknownAuthorPasses ==
    \A i \in DOMAIN contents :
        (UnknownAuthor(i) /\ Len(vlog[i]) >= 1 /\ ~Last(i).raised) =>
            (ValidationIn(contents[i]).passed
                 <=> /\ Get(orig[i], "platform", "") = "twitter"
                     /\ "url" \in DOMAIN orig[i]
                     /\ Last(i).metadata >= 15)

\* a twitter record of an unknown author has been scored 75 and passed
C30_Witness ==
    \E i \in DOMAIN contents :
        /\ UnknownAuthor(i)
        /\ Len(vlog[i]) = 1
        /\ Get(orig[i], "platform", "") = "twitter"
        /\ ValidationIn(contents[i]) = [authenticity_score |-> 75, passed |-> TRUE]

C28_Original ==
    [][\A t \in Threads :
          (throttle_up(t) /\ consecutive_rate_limits = 0
           /\ acalls < initial_calls) => acalls' > acalls]_vars

\* C29: for AdaptiveRateLimiter, under any interleaving of throttle_down,
\* throttle_up and wait_if_needed: when wait_if_needed returns, the number of
\* recorded timestamps in the trailing period does not exceed the current
\* calls limit, including when throttle_down lowered calls while the window
\* already held more timestamps than the new limit.
C29_Original ==
    \A t \in Threads : pc[t] = "a_release" => Len(window) <= acalls

====
